---------------------------- MODULE Spec2Model ----------------------------
(***************************************************************************)
(* Model of the video ranking engine                                       *)
(*   app/service/video_ranking_service.py  (VideoRankingService)           *)
(*   app/repository/milvus.py              (KeyframeVectorRepository)      *)
(* Similarities and penalties are integers (fixed-point cosine values);    *)
(* -np.inf is the sentinel NEG_INF, absorbing under addition.              *)
(* Python lists indexed from 0 are functions over 0..len-1; lists that are *)
(* only appended to and iterated are sequences.                            *)
(***************************************************************************)
EXTENDS Integers, Sequences, FiniteSets, TLC

(* ------------------------------ bounds -------------------------------- *)
MaxN      == 3   \* most events in a request / rows of S
MaxT      == 4   \* most columns of a similarity matrix handed to the DP
MaxCells  == 9   \* most cells N*T of a similarity matrix handed to the DP
MaxSim    == 1   \* similarities range over -1..MaxSim
MaxLambda == 3   \* penalty_weight ranges over 0..MaxLambda

(* --------------------------- numeric helpers -------------------------- *)
NEG_INF == -1000000

IsNegInf(x) == x <= NEG_INF

\* float addition with -inf absorbing
AddInf(a, b) == IF IsNegInf(a) \/ IsNegInf(b) THEN NEG_INF ELSE a + b

EmptyList == << >>

VARIABLES
    dp_pc,           \* position of the DP driver: "idle" | "input" | "done"
    S_in,            \* similarity matrix handed to _run_dp_and_backtracking
    pw_in,           \* penalty_weight handed to _run_dp_and_backtracking
    dp_ret,          \* (score, path) it returned
    ranges_file,     \* embeddings/video_index_ranges.json as found at startup
    video_ranges,    \* self.video_ranges: the loaded table, in file order
    id_ranges_list,  \* self.id_ranges_list: (start_id, end_id, video_id) by start_id
    pc,              \* position of rank_videos; "done": it returned
    request,         \* arguments of rank_videos
    corpus,          \* content of the vector index
    world,           \* what the collaborators answered during the request
    query_vectors,   \* embedded events
    candidate_video_ids,
    filter_keys,     \* (allowed_ids, excluded_ids) of _get_filtered_keys
    order,           \* order in which the set candidate_video_ids was iterated
    all_video_results,
    final_results,   \* list returned by rank_videos
    second,          \* a second execution of the same request
    calls,           \* the collaborators rank_videos contacted so far
    response,        \* VideoRankingResponse.results built by the controller
    fetch_pc,        \* position of the range-fetch driver: "idle" | "input" | "done"
    fetch_args,      \* index content and arguments of get_embeddings_by_range
    fetch_ret,       \* (ids, vectors) it returned
    hash_order,      \* the order this process's string hashing gives video ids
    conc             \* the locals of the requests running on one instance

dpVars   == <<dp_pc, S_in, pw_in, dp_ret>>
svcVars  == <<ranges_file, video_ranges, id_ranges_list>>
rankVars == <<pc, request, corpus, world, query_vectors, candidate_video_ids,
              filter_keys, order, all_video_results, final_results, second,
              calls>>
ctlVars   == <<response>>
fetchVars == <<fetch_pc, fetch_args, fetch_ret>>
concVars  == <<hash_order, conc>>

(* ----------------- _run_dp_and_backtracking (lines 301-359) ----------- *)
Shape(S) ==
    LET N == Cardinality(DOMAIN S)
    IN  [N |-> N, T |-> IF N = 0 THEN 0 ELSE Cardinality(DOMAIN S[0])]

\* the candidate without the lambda*(t-1) offset of the predecessor
CandidateValue_NoOffset(DP_table, penalty_weight, i, t) == DP_table[i-1][t-1]

\* line 325: candidate_value = DP_table[i-1, t-1] + penalty_weight * (t - 1)
CandidateValue(DP_table, penalty_weight, i, t) ==
    AddInf(DP_table[i-1][t-1], penalty_weight * (t - 1))

\* a running maximum that is never replaced after the first column
Improves_Never(candidate_value, running_max) == FALSE

\* a running maximum that a tie replaces as well
Improves_OrEqual(candidate_value, running_max) == candidate_value >= running_max

\* line 326: if candidate_value > running_max
Improves(candidate_value, running_max) == candidate_value > running_max

\* a first running maximum without the lambda*(i-1) offset
FirstRunningMax_NoOffset(DP_table, penalty_weight, i) == DP_table[i-1][i-1]

\* line 330: running_max = DP_table[i-1, i-1] + penalty_weight * (i - 1)
FirstRunningMax(DP_table, penalty_weight, i) ==
    AddInf(DP_table[i-1][i-1], penalty_weight * (i - 1))

\* a cell that adds the distance term instead of subtracting it
CellValue_PenaltyAdded(S_it, running_max, penalty_weight, t) ==
    AddInf(AddInf(S_it, running_max), penalty_weight * t)

\* line 333: DP_table[i, t] = S[i, t] + running_max - penalty_weight * t
CellValue(S_it, running_max, penalty_weight, t) ==
    AddInf(AddInf(S_it, running_max), 0 - penalty_weight * t)

\* lines 323-334: the loop over t for one row i, from column t on
RECURSIVE InnerLoop(_, _, _, _, _, _)
InnerLoop(S, penalty_weight, T, i, t, st) ==
    IF t >= T THEN st
    ELSE
      LET rm == IF t > i
                THEN LET candidate_value ==
                           CandidateValue(st.DP_table, penalty_weight, i, t)
                     IN  IF Improves(candidate_value, st.running_max)
                         THEN [running_max |-> candidate_value,
                               best_prev_t |-> t - 1]
                         ELSE [running_max |-> st.running_max,
                               best_prev_t |-> st.best_prev_t]
                ELSE [running_max |->
                          FirstRunningMax(st.DP_table, penalty_weight, i),
                      best_prev_t |-> i - 1]
          v  == CellValue(S[i][t], rm.running_max, penalty_weight, t)
      IN  InnerLoop(S, penalty_weight, T, i, t + 1,
             [DP_table          |-> [st.DP_table EXCEPT ![i][t] = v],
              backpointer_table |-> [st.backpointer_table
                                        EXCEPT ![i][t] = rm.best_prev_t],
              running_max       |-> rm.running_max,
              best_prev_t       |-> rm.best_prev_t])

\* lines 319-334: the loop over the rows i = 1 .. N-1
RECURSIVE OuterLoop(_, _, _, _, _, _)
OuterLoop(S, penalty_weight, N, T, i, tabs) ==
    IF i >= N THEN tabs
    ELSE
      LET st == InnerLoop(S, penalty_weight, T, i, i,
                   [DP_table          |-> tabs.DP_table,
                    backpointer_table |-> tabs.backpointer_table,
                    running_max       |-> NEG_INF,
                    best_prev_t       |-> -1])
      IN  OuterLoop(S, penalty_weight, N, T, i + 1,
             [DP_table          |-> st.DP_table,
              backpointer_table |-> st.backpointer_table])

\* tables whose untouched cells hold 0 instead of -inf
DPTables_ZeroFilled(S, penalty_weight) ==
    LET N == Shape(S).N
        T == Shape(S).T
    IN  OuterLoop(S, penalty_weight, N, T, 1,
           [DP_table          |-> [i \in 0..(N-1) |->
                                     [t \in 0..(T-1) |->
                                        IF i = 0 THEN S[0][t] ELSE 0]],
            backpointer_table |-> [i \in 0..(N-1) |->
                                     [t \in 0..(T-1) |-> -1]]])

\* tables filled as if the penalty were 0
DPTables_PenaltyDropped(S, penalty_weight) ==
    LET N == Shape(S).N
        T == Shape(S).T
    IN  OuterLoop(S, 0, N, T, 1,
           [DP_table          |-> [i \in 0..(N-1) |->
                                     [t \in 0..(T-1) |->
                                        IF i = 0 THEN S[0][t] ELSE NEG_INF]],
            backpointer_table |-> [i \in 0..(N-1) |->
                                     [t \in 0..(T-1) |-> -1]]])

\* lines 312-334: both tables after the DP
DPTables(S, penalty_weight) ==
    LET N == Shape(S).N
        T == Shape(S).T
    IN  OuterLoop(S, penalty_weight, N, T, 1,
           [DP_table          |-> [i \in 0..(N-1) |->
                                     [t \in 0..(T-1) |->
                                        IF i = 0 THEN S[0][t] ELSE NEG_INF]],
            backpointer_table |-> [i \in 0..(N-1) |->
                                     [t \in 0..(T-1) |-> -1]]])

\* line 337: np.argmax returns the first index holding the maximum
ArgMax(row, T) ==
    CHOOSE t \in 0..(T-1) :
        /\ \A u \in 0..(T-1) : row[u] <= row[t]
        /\ \A u \in 0..(t-1) : row[u] < row[t]

\* a backtracking that reads the backpointer of the row below
RECURSIVE Backtrack_RowBelow(_, _, _, _, _)
Backtrack_RowBelow(backpointer_table, T, i, current_t, path) ==
    LET path1 == [path EXCEPT ![i] = current_t]
    IN  IF i > 0
        THEN LET prev_t == backpointer_table[i-1][current_t]
             IN  IF prev_t < 0 \/ prev_t >= T
                 THEN [valid |-> FALSE, path |-> EmptyList]
                 ELSE Backtrack_RowBelow(backpointer_table, T, i - 1, prev_t, path1)
        ELSE [valid |-> TRUE, path |-> path1]

\* lines 344-354: follow the backpointers from row i down to row 0;
\* not valid when a backpointer is out of [0, T)
RECURSIVE Backtrack(_, _, _, _, _)
Backtrack(backpointer_table, T, i, current_t, path) ==
    LET path1 == [path EXCEPT ![i] = current_t]
    IN  IF i > 0
        THEN LET prev_t == backpointer_table[i][current_t]
             IN  IF prev_t < 0 \/ prev_t >= T
                 THEN [valid |-> FALSE, path |-> EmptyList]
                 ELSE Backtrack(backpointer_table, T, i - 1, prev_t, path1)
        ELSE [valid |-> TRUE, path |-> path1]

Infeasible == [score |-> NEG_INF, path |-> EmptyList]

run_dp_and_backtracking(S, penalty_weight) ==
    LET N == Shape(S).N
        T == Shape(S).T
    IN  IF N = 0 \/ T = 0 THEN Infeasible
        ELSE
          LET tabs         == DPTables(S, penalty_weight)
              best_final_t == ArgMax(tabs.DP_table[N-1], T)
              best_score   == tabs.DP_table[N-1][best_final_t]
          IN  IF IsNegInf(best_score) THEN Infeasible
              ELSE
                LET bt   == Backtrack(tabs.backpointer_table, T, N - 1,
                                      best_final_t, [i \in 0..(N-1) |-> -1])
                    path == bt.path
                IN  IF ~bt.valid THEN Infeasible
                    ELSE IF \E i \in 0..(N-1) : path[i] < 0 \/ path[i] >= T
                         THEN Infeasible
                         ELSE [score |-> best_score, path |-> path]

(* ----------------------- the DP taken on its own ---------------------- *)
SimValues == (0 - 1)..MaxSim

Matrices(N, T) == [0..(N-1) -> [0..(T-1) -> SimValues]]

\* the worked example of the design document, in hundredths
ExampleS ==
    [i \in 0..1 |-> IF i = 0
                    THEN [t \in 0..2 |-> CASE t = 0 -> 90 [] t = 1 -> 10 [] OTHER -> 20]
                    ELSE [t \in 0..2 |-> CASE t = 0 -> 10 [] t = 1 -> 20 [] OTHER -> 95]]

\* the widest shape, MaxN events on MaxT frames, with two-valued entries
BinaryMatrices == [0..(MaxN-1) -> [0..(MaxT-1) -> {0, MaxSim}]]

DPInputs ==
    {ExampleS} \cup BinaryMatrices \cup
    UNION { Matrices(N, T) : <<N, T>> \in
              { nt \in (0..MaxN) \X (0..MaxT) : nt[1] * nt[2] <= MaxCells } }

DPIdle ==
    /\ dp_pc = "idle"
    /\ S_in = EmptyList
    /\ pw_in = 0
    /\ dp_ret = Infeasible

RunDP ==
    /\ dp_pc = "input"
    /\ dp_ret' = run_dp_and_backtracking(S_in, pw_in)
    /\ dp_pc' = "done"
    /\ UNCHANGED <<S_in, pw_in>>
    /\ UNCHANGED <<svcVars, rankVars, ctlVars, fetchVars, concVars>>

DPInit ==
    /\ dp_pc = "input"
    /\ S_in \in DPInputs
    /\ pw_in \in 0..MaxLambda
    /\ dp_ret = Infeasible

(* ======================= the ranking pipeline ========================= *)
(* ------------------------------ bounds -------------------------------- *)
MaxEvents  == 2   \* most events in a ranking request
MaxTopK    == 2   \* top_k ranges over 1..MaxTopK
MaxPenalty == 1   \* explicit penalties are 0, 0.5, .., MaxPenalty * 0.5

(* ----------------------------- settings ------------------------------- *)
\* settings.DP_PENALTY_WEIGHT = 0.005, the unit of every score of the pipeline
DP_PENALTY_WEIGHT == 1

\* cosine similarity 1.0 in units of 0.005
SimUnit == 200 * DP_PENALTY_WEIGHT

PenaltyStep == SimUnit \div 2

(* ------------------------- generic list helpers ----------------------- *)
Min(a, b) == IF a <= b THEN a ELSE b

SeqToSet(q) == { q[i] : i \in 1..Len(q) }

\* the orders in which a set can be iterated
Perms(X) ==
    { q \in [1..Cardinality(X) -> X] :
        \A i, j \in 1..Cardinality(X) : i # j => q[i] # q[j] }

\* list.sort(key=...): ascending and stable; keys[i] is the key of q[i]
InsertAsc(acc, x) ==
    LET k == Cardinality({ j \in 1..Len(acc) : acc[j].key <= x.key })
    IN  SubSeq(acc, 1, k) \o <<x>> \o SubSeq(acc, k + 1, Len(acc))

RECURSIVE SortKeyedFrom(_, _, _)
SortKeyedFrom(keyed, i, acc) ==
    IF i > Len(keyed) THEN acc
    ELSE SortKeyedFrom(keyed, i + 1, InsertAsc(acc, keyed[i]))

SortAsc(q, keys) ==
    LET sorted == SortKeyedFrom([i \in 1..Len(q) |-> [key |-> keys[i], item |-> q[i]]],
                                1, <<>>)
    IN  [i \in 1..Len(q) |-> sorted[i].item]

(* ------------------- external stores (read-only) ---------------------- *)
Entity(id, emb) == [id |-> id, embedding |-> emb]

\* two contents of the vector index, in storage order; an embedding is the
\* axis it points along, "z" the zero vector; id 9 belongs to no video, and
\* in CorpusA id 8 of video "2/1" was never indexed
CorpusA ==
    << Entity(3, "b"), Entity(2, "z"), Entity(1, "a"),
       Entity(6, "z"), Entity(9, "a"), Entity(4, "a"),
       Entity(5, "b"), Entity(7, "b") >>

CorpusB ==
    << Entity(8, "a"), Entity(7, "b"), Entity(9, "b"),
       Entity(1, "b"), Entity(3, "b"), Entity(2, "a"),
       Entity(5, "a"), Entity(4, "a"), Entity(6, "z") >>

Corpora == {CorpusA, CorpusB}

\* the keyframe documents of the metadata store; frame 2 has no document
KeyframeDocs ==
    { [key |-> k,
       group_num |-> IF k <= 6 THEN "1" ELSE "2",
       video_num |-> IF k <= 3 THEN 1 ELSE IF k <= 6 THEN 2 ELSE 1] :
         k \in (1..8) \ {2} }

\* embeddings/video_index_ranges.json, in file order
RangesFile ==
    << [video_id |-> "2/1", start_id |-> 7, end_id |-> 8],
       [video_id |-> "1/1", start_id |-> 1, end_id |-> 3],
       [video_id |-> "1/2", start_id |-> 4, end_id |-> 6] >>

(* --------------------------- construction ----------------------------- *)
\* _build_id_to_video_mapping
build_id_to_video_mapping(ranges) ==
    SortAsc([i \in 1..Len(ranges) |->
                <<ranges[i].start_id, ranges[i].end_id, ranges[i].video_id>>],
            [i \in 1..Len(ranges) |-> ranges[i].start_id])

\* the id-range file at startup: readable, absent from every path tried, or
\* not valid JSON
LoadedFile == [state |-> "ok", data |-> RangesFile]

RangesFiles ==
    { LoadedFile,
      [state |-> "missing", data |-> <<>>],
      [state |-> "corrupt", data |-> <<>>] }

\* _load_video_ranges_with_fallback: the parsed table, or {} when no path
\* gives a parsable file
load_video_ranges_with_fallback(file) ==
    IF file.state = "ok" THEN file.data ELSE <<>>

\* __init__ (lines 46-53): load the table, build the reverse mapping
ServiceInitFrom(file) ==
    /\ ranges_file = file
    /\ video_ranges = load_video_ranges_with_fallback(file)
    /\ id_ranges_list =
          build_id_to_video_mapping(load_video_ranges_with_fallback(file))

ServiceInit == \E file \in RangesFiles : ServiceInitFrom(file)

(* ------------------------ vector repository --------------------------- *)
\* collection.query(expr="id >= start and id <= end", limit=num_expected)
QueryRange(index, start_id, end_id) ==
    LET hits == SelectSeq(index, LAMBDA e : e.id >= start_id /\ e.id <= end_id)
    IN  SubSeq(hits, 1, Min(Len(hits), end_id - start_id + 1))

\* the range query without the sort of line 99
OrderEntities_Unsorted(entities) == entities

\* a sort by id that puts the largest id first
OrderEntities_Descending(entities) ==
    SortAsc(entities, [i \in 1..Len(entities) |-> 0 - entities[i].id])

\* line 99: entities.sort(key=lambda x: x['id'])
OrderEntities(entities) ==
    SortAsc(entities, [i \in 1..Len(entities) |-> entities[i].id])

NoEmbeddings == [ids |-> <<>>, vectors |-> <<>>]

\* KeyframeVectorRepository.get_embeddings_by_range; raises: the query raises
get_embeddings_by_range(index, start_id, end_id, raises) ==
    IF end_id - start_id + 1 <= 0 THEN NoEmbeddings
    ELSE IF raises THEN NoEmbeddings
    ELSE LET entities == OrderEntities(QueryRange(index, start_id, end_id))
         IN  [ids     |-> [i \in 1..Len(entities) |-> entities[i].id],
              vectors |-> [i \in 1..Len(entities) |-> entities[i].embedding]]

(* ------------------- the range fetch taken on its own ----------------- *)
MaxFrameId == 9   \* start_id and end_id range up to MaxFrameId

NoFetchArgs == [index |-> <<>>, start_id |-> 0, end_id |-> 0, raises |-> FALSE]

FetchArgs ==
    [index : Corpora, start_id : 1..MaxFrameId, end_id : 0..MaxFrameId,
     raises : BOOLEAN]

FetchIdle ==
    /\ fetch_pc = "idle"
    /\ fetch_args = NoFetchArgs
    /\ fetch_ret = NoEmbeddings

FetchInit ==
    /\ fetch_pc = "input"
    /\ fetch_args \in FetchArgs
    /\ fetch_ret = NoEmbeddings

RunFetch ==
    /\ fetch_pc = "input"
    /\ fetch_ret' = get_embeddings_by_range(fetch_args.index, fetch_args.start_id,
                                            fetch_args.end_id, fetch_args.raises)
    /\ fetch_pc' = "done"
    /\ UNCHANGED fetch_args
    /\ UNCHANGED <<dpVars, svcVars, rankVars, ctlVars, concVars>>

(* ------------------------ similarity matrix --------------------------- *)
\* cosine of two axis-aligned vectors; a zero-norm vector gives 0
Cosine(q, k) ==
    IF q = "z" \/ k = "z" THEN 0 ELSE IF q = k THEN SimUnit ELSE 0

compute_similarity_matrix(q_vecs, k_vecs) ==
    [i \in 0..(Len(q_vecs) - 1) |->
        [t \in 0..(Len(k_vecs) - 1) |-> Cosine(q_vecs[i + 1], k_vecs[t + 1])]]

compute_similarity_matrix_for_video(q_vecs, index, start_id, end_id, raises) ==
    LET got == get_embeddings_by_range(index, start_id, end_id, raises)
    IN  IF got.ids = <<>>
        THEN [S_matrix |-> EmptyList, key_ids |-> <<>>]
        ELSE [S_matrix |-> compute_similarity_matrix(q_vecs, got.vectors),
              key_ids  |-> got.ids]

(* ------------------------- metadata filtering ------------------------- *)
NoneIds == [is_none |-> TRUE, ids |-> {}]

SomeIds(X) == [is_none |-> FALSE, ids |-> X]

\* keyframe_repo.find({"group_num": {"$in": groups}})
FindByGroups(groups) == { d \in KeyframeDocs : d.group_num \in groups }

\* a lookup that takes the two inclusion constraints as alternatives
FindIncluded_AnyOf(include_groups, include_videos) ==
    { d \in KeyframeDocs :
        \/ d.group_num \in include_groups
        \/ d.video_num \in include_videos }

\* keyframe_repo.find(filt), filt built at lines 283-287
FindIncluded(include_groups, include_videos) ==
    { d \in KeyframeDocs :
        /\ include_groups # {} => d.group_num \in include_groups
        /\ include_videos # {} => d.video_num \in include_videos }

\* a resolution in which an inclusion constraint wins over exclude_groups
get_filtered_keys_IncludeFirst(exclude_groups, include_groups, include_videos, raises) ==
    IF include_groups # {} \/ include_videos # {}
    THEN IF raises
         THEN [allowed_ids |-> NoneIds, excluded_ids |-> NoneIds]
         ELSE [allowed_ids  |-> SomeIds({ d.key : d \in
                                  FindIncluded(include_groups, include_videos) }),
               excluded_ids |-> NoneIds]
    ELSE IF exclude_groups # {}
    THEN IF raises
         THEN [allowed_ids |-> NoneIds, excluded_ids |-> NoneIds]
         ELSE [allowed_ids  |-> NoneIds,
               excluded_ids |-> SomeIds({ d.key : d \in FindByGroups(exclude_groups) })]
    ELSE [allowed_ids |-> NoneIds, excluded_ids |-> NoneIds]

\* _get_filtered_keys; an absent list and an empty list are both falsy and are
\* the empty set here; raises: the metadata lookup raises
get_filtered_keys(exclude_groups, include_groups, include_videos, raises) ==
    IF exclude_groups # {}
    THEN IF raises
         THEN [allowed_ids |-> NoneIds, excluded_ids |-> NoneIds]
         ELSE [allowed_ids  |-> NoneIds,
               excluded_ids |-> SomeIds({ d.key : d \in FindByGroups(exclude_groups) })]
    ELSE IF include_groups # {} \/ include_videos # {}
    THEN IF raises
         THEN [allowed_ids |-> NoneIds, excluded_ids |-> NoneIds]
         ELSE [allowed_ids  |-> SomeIds({ d.key : d \in
                                  FindIncluded(include_groups, include_videos) }),
               excluded_ids |-> NoneIds]
    ELSE [allowed_ids |-> NoneIds, excluded_ids |-> NoneIds]

\* a filter that forgets the exclusion set
IsAllowed_IgnoresExcluded(frame_id, keys) ==
    ~(~keys.allowed_ids.is_none /\ frame_id \notin keys.allowed_ids.ids)

\* lines 468-474
IsAllowed(frame_id, keys) ==
    /\ ~(~keys.excluded_ids.is_none /\ frame_id \in keys.excluded_ids.ids)
    /\ ~(~keys.allowed_ids.is_none /\ frame_id \notin keys.allowed_ids.ids)

\* the passing columns collected last to first
col_indices_filtered_Reversed(frame_ids_all, keys) ==
    LET pos == SelectSeq([j \in 1..Len(frame_ids_all) |-> j],
                         LAMBDA j : IsAllowed(frame_ids_all[j], keys))
    IN  [j \in 1..Len(pos) |-> pos[Len(pos) + 1 - j] - 1]

\* lines 464-478: positions (from 0) of the columns that pass, in order
col_indices_filtered(frame_ids_all, keys) ==
    LET pos == SelectSeq([j \in 1..Len(frame_ids_all) |-> j],
                         LAMBDA j : IsAllowed(frame_ids_all[j], keys))
    IN  [j \in 1..Len(pos) |-> pos[j] - 1]

\* lines 464-478: the frame ids that pass, in the order they were appended
frame_ids_filtered(frame_ids_all, cols) ==
    [j \in 1..Len(cols) |-> frame_ids_all[cols[j] + 1]]

\* line 483: S_matrix[:, col_indices_filtered]
S_matrix_filtered(S_matrix, cols, N) ==
    [i \in 0..(N-1) |-> [t \in 0..(Len(cols) - 1) |-> S_matrix[i][cols[t + 1]]]]

(* --------------------------- pre-filtering ---------------------------- *)
\* lines 149-153: the first range of id_ranges_list holding frame_id
RECURSIVE FirstRange(_, _, _)
FirstRange(ranges_list, frame_id, k) ==
    IF k > Len(ranges_list) THEN {}
    ELSE IF ranges_list[k][1] <= frame_id /\ frame_id <= ranges_list[k][2]
         THEN {ranges_list[k][3]}
         ELSE FirstRange(ranges_list, frame_id, k + 1)

\* a lookup by start_id alone: the last range starting at or before the frame
map_frame_ids_to_video_ids_IgnoresEnd(ranges_list, frame_ids) ==
    UNION { LET c == { k \in 1..Len(ranges_list) : ranges_list[k][1] <= frame_ids[j] }
            IN  IF c = {} THEN {}
                ELSE { ranges_list[CHOOSE k \in c : \A m \in c : m <= k][3] }
            : j \in 1..Len(frame_ids) }

\* _map_frame_ids_to_video_ids
map_frame_ids_to_video_ids(ranges_list, frame_ids) ==
    IF ranges_list = <<>> THEN {}
    ELSE UNION { FirstRange(ranges_list, frame_ids[j], 1) : j \in 1..Len(frame_ids) }

\* what VectorIndex.nearest can answer to one event
SearchOutcomes ==
    { [raises |-> TRUE, results |-> <<>>] } \cup
    { [raises |-> FALSE, results |-> h] : h \in { <<>>, <<2, 9>>, <<7, 4, 1>> } }

\* a pre-filter that gives up as soon as one query raises
get_candidate_videos_from_queries_AbortOnError(ranges_list, q_vecs, search) ==
    IF \E i \in 1..Len(q_vecs) : search[i].raises THEN {}
    ELSE UNION { map_frame_ids_to_video_ids(ranges_list, search[i].results)
                 : i \in 1..Len(q_vecs) }

\* _get_candidate_videos_from_queries; search[i] answers the query of event i
get_candidate_videos_from_queries(ranges_list, q_vecs, search) ==
    IF ranges_list = <<>> THEN {}
    ELSE UNION { IF search[i].raises \/ search[i].results = <<>>
                 THEN {}
                 ELSE map_frame_ids_to_video_ids(ranges_list, search[i].results)
                 : i \in 1..Len(q_vecs) }

(* -------------------------- per-video step ---------------------------- *)
RangeOf(ranges, video_id) ==
    { ranges[i] : i \in { j \in 1..Len(ranges) : ranges[j].video_id = video_id } }

Skipped == [ok |-> FALSE, result |-> [video_id |-> "", score |-> NEG_INF,
                                      aligned_key_ids |-> <<>>]]

\* lines 437-517: the body of the loop for one candidate video
process_video(video_id, ranges, index, q_vecs, keys, lambda_val, raises) ==
    IF RangeOf(ranges, video_id) = {} THEN Skipped
    ELSE
      LET v_range == CHOOSE r \in RangeOf(ranges, video_id) : TRUE
          sm      == compute_similarity_matrix_for_video(
                        q_vecs, index, v_range.start_id, v_range.end_id, raises)
          N       == Len(q_vecs)
      IN  IF sm.key_ids = <<>> THEN Skipped
          ELSE
            LET cols  == col_indices_filtered(sm.key_ids, keys)
                ids_f == frame_ids_filtered(sm.key_ids, cols)
                T     == Len(ids_f)
                S_f   == S_matrix_filtered(sm.S_matrix, cols, N)
            IN  IF T = 0 THEN Skipped
                ELSE IF T < N THEN Skipped
                ELSE
                  LET dp == run_dp_and_backtracking(S_f, lambda_val)
                  IN  IF IsNegInf(dp.score) THEN Skipped
                      ELSE IF dp.path # EmptyList
                              /\ \A i \in DOMAIN dp.path :
                                     0 <= dp.path[i] /\ dp.path[i] < T
                      THEN [ok |-> TRUE,
                            result |->
                              [video_id |-> video_id,
                               score    |-> dp.score,
                               aligned_key_ids |->
                                  [i \in 1..N |-> ids_f[dp.path[i - 1] + 1]]]]
                      ELSE Skipped

\* lines 437-517 for every candidate: what the loop body yields for each video
\* (it reads nothing an earlier iteration wrote)
loop_bodies(cands, ranges, index, q_vecs, keys, lambda_val, fetch_raises) ==
    { [video_id |-> v,
       out      |-> process_video(v, ranges, index, q_vecs, keys, lambda_val,
                                  v \in fetch_raises)] : v \in cands }

BodyOf(bodies, v) == (CHOOSE b \in bodies : b.video_id = v).out

\* a loop that a skipped video ends: nothing is collected after it
RECURSIVE collect_results_AbortOnSkip(_, _, _, _)
collect_results_AbortOnSkip(iter, k, acc, bodies) ==
    IF k > Len(iter) THEN acc
    ELSE LET r == BodyOf(bodies, iter[k])
         IN  IF r.ok
             THEN collect_results_AbortOnSkip(iter, k + 1, Append(acc, r.result),
                                              bodies)
             ELSE acc

\* lines 436-517: the loop over the candidates in iteration order
RECURSIVE collect_results(_, _, _, _)
collect_results(iter, k, acc, bodies) ==
    IF k > Len(iter) THEN acc
    ELSE LET r == BodyOf(bodies, iter[k])
         IN  collect_results(iter, k + 1,
                             IF r.ok THEN Append(acc, r.result) ELSE acc,
                             bodies)

(* ---------------------------- aggregation ----------------------------- *)
\* a descending sort that puts a result before the equal ones already placed
RECURSIVE sort_by_score_desc_TiesReversed(_)
sort_by_score_desc_TiesReversed(results) ==
    IF results = <<>> THEN <<>>
    ELSE LET rest == sort_by_score_desc_TiesReversed(
                         SubSeq(results, 1, Len(results) - 1))
             x    == results[Len(results)]
             k    == Cardinality({ j \in 1..Len(rest) : rest[j].score > x.score })
         IN  SubSeq(rest, 1, k) \o <<x>> \o SubSeq(rest, k + 1, Len(rest))

\* an aggregation that does not sort
sort_by_score_desc_NoSort(results) == results

\* line 522: all_video_results.sort(key=lambda x: x["score"], reverse=True);
\* reverse=True keeps equal elements in their original order
sort_by_score_desc(results) ==
    SortAsc(results, [i \in 1..Len(results) |-> 0 - results[i].score])

\* line 523: all_video_results[:top_k], top_k >= 1
truncate(results, top_k) == SubSeq(results, 1, Min(top_k, Len(results)))

\* a default that also replaces an explicit 0 (penalty_weight or default)
lambda_of_ZeroIsAbsent(penalty_weight) ==
    IF penalty_weight.is_none \/ penalty_weight.value = 0
    THEN DP_PENALTY_WEIGHT ELSE penalty_weight.value

\* lines 384-388
lambda_of(penalty_weight) ==
    IF penalty_weight.is_none THEN DP_PENALTY_WEIGHT ELSE penalty_weight.value

\* model_service.embed_texts: the vector of an event is the axis it names
embed_texts(events) == [i \in 1..Len(events) |-> events[i]]

(* ----------------------------- requests ------------------------------- *)
EventName(i) == IF i % 2 = 1 THEN "a" ELSE "b"

Events(N) == [i \in 1..N |-> EventName(i)]

Filters(ex, ig, iv) ==
    [exclude_groups |-> ex, include_groups |-> ig, include_videos |-> iv]

FilterChoices ==
    { Filters({}, {}, {}),
      Filters({"1"}, {}, {}),
      Filters({"2"}, {}, {}),
      Filters({"1", "2"}, {}, {}),
      Filters({}, {"1"}, {}),
      Filters({}, {}, {1}),
      Filters({}, {"1"}, {2}),
      Filters({"2"}, {"2"}, {}),
      Filters({}, {"3"}, {}) }

PenaltyChoices ==
    { [is_none |-> TRUE, value |-> 0] } \cup
    { [is_none |-> FALSE, value |-> k * PenaltyStep] : k \in 0..MaxPenalty }

Requests ==
    { [events |-> Events(N), top_k |-> k, penalty_weight |-> pw, filters |-> f] :
        N \in 0..MaxEvents, k \in 1..MaxTopK, pw \in PenaltyChoices,
        f \in FilterChoices }

\* expired_after: how many candidates had been processed when a request-level
\* deadline passed (the number of candidates: not while they were processed)
NoWorld ==
    [embed_raises |-> FALSE, search |-> <<>>, lookup_raises |-> FALSE,
     fetch_raises |-> {}, expired_after |-> 0]

NoSecond == [done |-> FALSE, results |-> <<>>]

NoKeys == [allowed_ids |-> NoneIds, excluded_ids |-> NoneIds]

RankLocalsInit ==
    /\ world = NoWorld
    /\ query_vectors = <<>>
    /\ candidate_video_ids = {}
    /\ filter_keys = NoKeys
    /\ order = <<>>
    /\ all_video_results = <<>>
    /\ final_results = <<>>
    /\ second = NoSecond
    /\ calls = {}

RankInit ==
    /\ pc = "start"
    /\ request \in Requests
    /\ corpus \in Corpora
    /\ RankLocalsInit

RankIdle ==
    /\ pc = "idle"
    /\ request = [events |-> <<>>, top_k |-> 1,
                  penalty_weight |-> [is_none |-> TRUE, value |-> 0],
                  filters |-> Filters({}, {}, {})]
    /\ corpus = <<>>
    /\ RankLocalsInit

(* ------------------------- rank_videos, by step ----------------------- *)
Return(results) ==
    /\ final_results' = results
    /\ pc' = "done"

\* a guard that lets a request without events through
NothingToRank_IgnoresEvents(events, ranges_list) == ranges_list = <<>>

\* lines 375-382: the two early returns before any collaborator is used
NothingToRank(events, ranges_list) ==
    Len(events) = 0 \/ ranges_list = <<>>

\* lines 373-400: guards, penalty default, STEP 1 (encode the events)
EncodeEvents ==
    /\ pc = "start"
    /\ IF NothingToRank(request.events, id_ranges_list)
       THEN /\ Return(<<>>)
            /\ UNCHANGED <<world, query_vectors, calls>>
       ELSE \E raises \in BOOLEAN :
              /\ world' = [world EXCEPT !.embed_raises = raises]
              /\ calls' = calls \cup {"embed"}
              /\ IF raises
                 THEN Return(<<>>) /\ UNCHANGED query_vectors
                 ELSE /\ query_vectors' = embed_texts(request.events)
                      /\ pc' = "prefilter"
                      /\ UNCHANGED final_results
    /\ UNCHANGED <<request, corpus, candidate_video_ids, filter_keys, order,
                   all_video_results, second>>
    /\ UNCHANGED <<dpVars, svcVars, ctlVars, fetchVars, concVars>>

\* lines 402-417: STEP 2 (pre-filter the videos)
PreFilter ==
    /\ pc = "prefilter"
    /\ \E search \in [1..Len(query_vectors) -> SearchOutcomes] :
          LET cands == get_candidate_videos_from_queries(
                           id_ranges_list, query_vectors, search)
          IN  /\ world' = [world EXCEPT !.search = search]
              /\ calls' = IF Len(query_vectors) > 0
                          THEN calls \cup {"nearest"} ELSE calls
              /\ candidate_video_ids' = cands
              /\ IF cands = {}
                 THEN Return(<<>>)
                 ELSE pc' = "filters" /\ UNCHANGED final_results
    /\ UNCHANGED <<request, corpus, query_vectors, filter_keys, order,
                   all_video_results, second>>
    /\ UNCHANGED <<dpVars, svcVars, ctlVars, fetchVars, concVars>>

\* whether _get_filtered_keys asks the metadata store at all
IssuesLookup(f) ==
    f.exclude_groups # {} \/ f.include_groups # {} \/ f.include_videos # {}

\* lines 419-431: STEP 3 (metadata filters)
GetMetadataFilters ==
    /\ pc = "filters"
    /\ \E raises \in IF IssuesLookup(request.filters) THEN BOOLEAN ELSE {FALSE} :
          /\ world' = [world EXCEPT !.lookup_raises = raises]
          /\ calls' = IF IssuesLookup(request.filters)
                      THEN calls \cup {"metadata"} ELSE calls
          /\ filter_keys' = get_filtered_keys(request.filters.exclude_groups,
                                              request.filters.include_groups,
                                              request.filters.include_videos,
                                              raises)
    /\ pc' = "videos"
    /\ UNCHANGED <<request, corpus, query_vectors, candidate_video_ids, order,
                   all_video_results, final_results, second>>
    /\ UNCHANGED <<dpVars, svcVars, ctlVars, fetchVars, concVars>>

\* the range fetch raises for no candidate or for one of them
FetchFailures(cands) == { {} } \cup { {v} : v \in cands }

\* when a request-level deadline may pass: after the first of several
\* candidates, or not while the candidates are processed
ExpiryPoints(n, fetch_raises) ==
    IF fetch_raises = {} /\ n >= 2 THEN {1, n} ELSE {n}

\* get_embeddings_by_range queries the index unless the range is empty
IssuesRangeQuery(cands, ranges) ==
    \E v \in cands : \E r \in RangeOf(ranges, v) : r.end_id - r.start_id + 1 > 0

\* lines 433-530: STEP 4 (the loop over the candidates) and STEP 5 (sort, cut)
RunDANTE ==
    /\ pc = "videos"
    /\ \E fetch_raises \in FetchFailures(candidate_video_ids) :
          \E bodies \in { loop_bodies(candidate_video_ids, video_ranges, corpus,
                                       query_vectors, filter_keys,
                                       lambda_of(request.penalty_weight),
                                       fetch_raises) } :
            \E iter \in Perms(candidate_video_ids) :
              \E sorted \in { sort_by_score_desc(
                                  collect_results(iter, 1, <<>>, bodies)) } :
                /\ \E expired_after \in ExpiryPoints(Len(iter), fetch_raises) :
                      world' = [world EXCEPT !.fetch_raises = fetch_raises,
                                             !.expired_after = expired_after]
                /\ calls' = IF IssuesRangeQuery(candidate_video_ids, video_ranges)
                            THEN calls \cup {"range"} ELSE calls
                /\ order' = iter
                /\ all_video_results' = sorted
                /\ Return(truncate(sorted, request.top_k))
    /\ UNCHANGED <<request, corpus, query_vectors, candidate_video_ids,
                   filter_keys, second>>
    /\ UNCHANGED <<dpVars, svcVars, ctlVars, fetchVars, concVars>>

(* ------------------ rank_videos as one call (lines 363-530) ----------- *)
\* lines 373-431 and the loop bodies of lines 437-517: everything that does not
\* depend on the iteration order.  w: the collaborators' answers
rank_videos_bodies(req, index, ranges, ranges_list, w) ==
    IF NothingToRank(req.events, ranges_list) THEN {}
    ELSE IF w.embed_raises THEN {}
    ELSE
      LET q_vecs == embed_texts(req.events)
          cands  == get_candidate_videos_from_queries(ranges_list, q_vecs, w.search)
          keys   == get_filtered_keys(req.filters.exclude_groups,
                                      req.filters.include_groups,
                                      req.filters.include_videos,
                                      w.lookup_raises)
      IN  loop_bodies(cands, ranges, index, q_vecs, keys,
                      lambda_of(req.penalty_weight), w.fetch_raises)

\* lines 436-530 given the loop bodies: iterate in order iter, sort, cut
rank_videos_collect(bodies, iter, top_k) ==
    truncate(sort_by_score_desc(collect_results(iter, 1, <<>>, bodies)), top_k)

\* iter: the iteration order of the candidate set
rank_videos(req, index, ranges, ranges_list, w, iter) ==
    rank_videos_collect(rank_videos_bodies(req, index, ranges, ranges_list, w),
                        iter, req.top_k)

\* the same request executed again, in a process whose string hashing may
\* iterate the candidate set in another order; same collaborator answers
SecondExecution ==
    /\ pc = "done"
    /\ \E bodies \in { rank_videos_bodies(request, corpus, video_ranges,
                                           id_ranges_list, world) } :
          \E iter \in Perms({ b.video_id : b \in bodies }) :
              second' = [done    |-> TRUE,
                         results |-> rank_videos_collect(bodies, iter,
                                                         request.top_k)]
    /\ pc' = "replayed"
    /\ UNCHANGED <<request, corpus, world, query_vectors, candidate_video_ids,
                   filter_keys, order, all_video_results, final_results, calls>>
    /\ UNCHANGED <<dpVars, svcVars, ctlVars, fetchVars, concVars>>

(* ------------- RankingController.rank_videos_by_dp (lines 100-161) ---- *)
\* the fields RankedVideoResult declares as required (ranking_schemas.py 20-26)
RequiredFields ==
    {"video_id", "group_num", "video_num", "dp_score", "aligned_frames"}

\* the keyword arguments of the constructor call of lines 145-152
GivenFields ==
    {"video_id", "group_num", "video_num", "dp_score",
     "aligned_key_ids", "aligned_key_paths"}

\* pydantic validation: construction raises when a required field is not given
Validates(required, given) == required \subseteq given

\* line 138: group, video = video_id.split('/')
SplitVideoId(video_id) ==
    CASE video_id = "1/1" -> [group |-> "1", video |-> 1]
      [] video_id = "1/2" -> [group |-> "1", video |-> 2]
      [] video_id = "2/1" -> [group |-> "2", video |-> 1]

\* lines 127-158: the body of the formatting loop for one service result;
\* ok is FALSE when the except branch of line 155 skips the result
format_result(res_dict) ==
    IF ~Validates(RequiredFields, GivenFields)
    THEN [ok |-> FALSE, obj |-> [video_id |-> res_dict.video_id]]
    ELSE [ok  |-> TRUE,
          obj |-> [video_id        |-> res_dict.video_id,
                   group_num       |-> SplitVideoId(res_dict.video_id).group,
                   video_num       |-> SplitVideoId(res_dict.video_id).video,
                   dp_score        |-> res_dict.score,
                   aligned_key_ids |-> res_dict.aligned_key_ids]]

\* lines 125-158: the formatting loop over the service results
RECURSIVE format_results(_, _, _)
format_results(service_results, k, acc) ==
    IF k > Len(service_results) THEN acc
    ELSE LET r == format_result(service_results[k])
         IN  format_results(service_results, k + 1,
                            IF r.ok THEN Append(acc, r.obj) ELSE acc)

CtlIdle == response = <<>>

\* lines 125-161: the controller formats what the service returned
Respond ==
    /\ pc = "done"
    /\ response' = format_results(final_results, 1, <<>>)
    /\ pc' = "responded"
    /\ UNCHANGED <<request, corpus, world, query_vectors, candidate_video_ids,
                   filter_keys, order, all_video_results, final_results, second,
                   calls>>
    /\ UNCHANGED <<dpVars, svcVars, fetchVars, concVars>>

(* ------- two rank_videos requests on one instance (lines 363-530) ----- *)
ConcIdle ==
    /\ hash_order = <<>>
    /\ conc = <<>>

Requesters == {1, 2}

\* the requests of the interleaved runs: default penalty, three filters
ConcRequests ==
    { [events |-> Events(N), top_k |-> k,
       penalty_weight |-> [is_none |-> TRUE, value |-> 0], filters |-> f] :
        N \in 1..MaxEvents, k \in 1..MaxTopK,
        f \in { Filters({}, {}, {}), Filters({"1"}, {}, {}),
                Filters({}, {"1"}, {2}) } }

\* the collaborators of the interleaved runs answer without errors: the
\* index is CorpusA, and the nearest-neighbour hits depend on the event only
ConcIndex == CorpusA

ConcSearch(q_vec) ==
    [raises |-> FALSE, results |-> IF q_vec = "a" THEN <<7, 4, 1>> ELSE <<2, 9>>]

\* the locals of a rank_videos call that has not started
FreshLocals ==
    [pc |-> "start", query_vectors |-> <<>>, next_event |-> 1,
     candidate_video_ids |-> {}, filter_keys |-> NoKeys, todo |-> <<>>,
     all_video_results |-> <<>>, final_results |-> <<>>]

\* a set of video ids is iterated in the order this process hashes them
IterationOrder(cands) == SelectSeq(hash_order, LAMBDA v : v \in cands)

ConcInit ==
    /\ hash_order \in Perms({ RangesFile[i].video_id : i \in 1..Len(RangesFile) })
    /\ conc \in [args : [Requesters -> ConcRequests],
                  locals : [Requesters -> {FreshLocals}]]

\* locals kept on the instance: every call reads those of the first call
LocalsOf_Shared(c, r) == c.locals[1]

\* the locals of call r live in its own frame
LocalsOf(c, r) == c.locals[r]

\* lines 373-400, up to the first await
ConcStart(r) ==
    /\ LocalsOf(conc, r).pc = "start"
    /\ conc' = [conc EXCEPT !.locals[r] =
                  IF NothingToRank(conc.args[r].events, id_ranges_list)
                  THEN [LocalsOf(conc, r) EXCEPT !.pc = "done"]
                  ELSE [LocalsOf(conc, r) EXCEPT
                          !.pc = "search",
                          !.query_vectors = embed_texts(conc.args[r].events)]]
    /\ UNCHANGED hash_order
    /\ UNCHANGED <<dpVars, svcVars, rankVars, ctlVars, fetchVars>>

\* lines 171-201 for one event, then lines 413-415 after the last one
ConcSearchEvent(r) ==
    /\ LocalsOf(conc, r).pc = "search"
    /\ \E me \in { LocalsOf(conc, r) } :
         \E cands \in { me.candidate_video_ids \cup
                          get_candidate_videos_from_queries(
                              id_ranges_list, <<me.query_vectors[me.next_event]>>,
                              <<ConcSearch(me.query_vectors[me.next_event])>>) } :
            conc' = [conc EXCEPT !.locals[r] =
                      [me EXCEPT
                         !.candidate_video_ids = cands,
                         !.next_event = me.next_event + 1,
                         !.pc = IF me.next_event < Len(me.query_vectors)
                                THEN "search"
                                ELSE IF cands = {} THEN "done" ELSE "filters"]]
    /\ UNCHANGED hash_order
    /\ UNCHANGED <<dpVars, svcVars, rankVars, ctlVars, fetchVars>>

\* lines 419-431: the metadata filters, then the loop is entered
ConcFilters(r) ==
    /\ LocalsOf(conc, r).pc = "filters"
    /\ \E me \in { LocalsOf(conc, r) } :
            conc' = [conc EXCEPT !.locals[r] =
                      [me EXCEPT
                         !.filter_keys =
                             get_filtered_keys(conc.args[r].filters.exclude_groups,
                                               conc.args[r].filters.include_groups,
                                               conc.args[r].filters.include_videos,
                                               FALSE),
                         !.todo = IterationOrder(me.candidate_video_ids),
                         !.pc = "videos"]]
    /\ UNCHANGED hash_order
    /\ UNCHANGED <<dpVars, svcVars, rankVars, ctlVars, fetchVars>>

\* lines 437-517 for one candidate; after the last one lines 522-530
ConcVideo(r) ==
    /\ LocalsOf(conc, r).pc = "videos"
    /\ \E me \in { LocalsOf(conc, r) } :
         \E out \in { process_video(Head(me.todo), video_ranges, ConcIndex,
                                    me.query_vectors, me.filter_keys,
                                    lambda_of(conc.args[r].penalty_weight),
                                    FALSE) } :
          \E acc \in { IF out.ok THEN Append(me.all_video_results, out.result)
                        ELSE me.all_video_results } :
            IF Len(me.todo) = 1
            THEN \E sorted \in { sort_by_score_desc(acc) } :
                   conc' = [conc EXCEPT !.locals[r] =
                             [me EXCEPT
                                !.todo = <<>>,
                                !.all_video_results = sorted,
                                !.final_results =
                                    truncate(sorted, conc.args[r].top_k),
                                !.pc = "done"]]
            ELSE conc' = [conc EXCEPT !.locals[r] =
                           [me EXCEPT !.todo = Tail(me.todo),
                                      !.all_video_results = acc]]
    /\ UNCHANGED hash_order
    /\ UNCHANGED <<dpVars, svcVars, rankVars, ctlVars, fetchVars>>

NextConc ==
    \E r \in Requesters :
        \/ ConcStart(r)
        \/ ConcSearchEvent(r)
        \/ ConcFilters(r)
        \/ ConcVideo(r)

vars == <<dpVars, svcVars, rankVars, ctlVars, fetchVars, concVars>>

Init == DPIdle /\ ServiceInit /\ RankInit /\ CtlIdle /\ FetchIdle /\ ConcIdle

Next ==
    \/ EncodeEvents
    \/ PreFilter
    \/ GetMetadataFilters
    \/ RunDANTE
    \/ SecondExecution
    \/ Respond

Spec == Init /\ [][Next]_vars

InitDP ==
    DPInit /\ ServiceInitFrom(LoadedFile) /\ RankIdle /\ CtlIdle /\ FetchIdle
        /\ ConcIdle

SpecDP == InitDP /\ [][RunDP]_vars

InitFetch ==
    DPIdle /\ ServiceInitFrom(LoadedFile) /\ RankIdle /\ CtlIdle /\ FetchInit
        /\ ConcIdle

SpecFetch == InitFetch /\ [][RunFetch]_vars

InitConc ==
    DPIdle /\ ServiceInitFrom(LoadedFile) /\ RankIdle /\ CtlIdle /\ FetchIdle
        /\ ConcInit

SpecConc == InitConc /\ [][NextConc]_vars

(* ------------------ reference semantics of an alignment --------------- *)
\* strictly increasing assignments t_0 < ... < t_{N-1} into [0, T)
Assignments(N, T) ==
    { p \in [0..(N-1) -> 0..(T-1)] : \A i \in 1..(N-1) : p[i-1] < p[i] }

RECURSIVE SumSim(_, _, _)
SumSim(S, p, n) == IF n = 0 THEN 0 ELSE SumSim(S, p, n - 1) + S[n-1][p[n-1]]

\* skipped frames between consecutive aligned frames
RECURSIVE SumGaps(_, _)
SumGaps(p, n) ==
    IF n <= 1 THEN 0 ELSE SumGaps(p, n - 1) + (p[n-1] - p[n-2] - 1)

PathValue(S, lambda, p) ==
    SumSim(S, p, Shape(S).N) - lambda * SumGaps(p, Shape(S).N)

SetMax(X) == CHOOSE x \in X : \A y \in X : y <= x

BestValue(S, lambda) ==
    SetMax({ PathValue(S, lambda, p) : p \in Assignments(Shape(S).N, Shape(S).T) })

DPDone     == dp_pc = "done"
DPFeasible == Shape(S_in).N >= 1 /\ Shape(S_in).T >= Shape(S_in).N

IsStrictlyIncreasing(p, n) == \A i \in 1..(n-1) : p[i-1] < p[i]

\* C1: for T' >= N >= 1 and lambda >= 0 the returned score is the maximum over
\* strictly increasing assignments of sum S[i,t_i] - lambda * (skipped frames)
C1_ScoreIsGapOptimum ==
    (DPDone /\ DPFeasible) => dp_ret.score = BestValue(S_in, pw_in)

\* C2: for T' >= N >= 1 the returned path is strictly increasing, lies in
\* [0, T') and no strictly increasing assignment has a larger gap-penalised value
C2_PathIsOptimal ==
    (DPDone /\ DPFeasible) =>
        /\ DOMAIN dp_ret.path = 0..(Shape(S_in).N - 1)
        /\ dp_ret.path \in Assignments(Shape(S_in).N, Shape(S_in).T)
        /\ \A p \in Assignments(Shape(S_in).N, Shape(S_in).T) :
              PathValue(S_in, pw_in, p) <= PathValue(S_in, pw_in, dp_ret.path)

\* a run in which the optimal path skips a frame although skipping is penalised
C2_Witness ==
    /\ DPDone /\ DPFeasible
    /\ Shape(S_in).N >= 2 /\ pw_in > 0
    /\ dp_ret.path # EmptyList
    /\ \E i \in 1..(Shape(S_in).N - 1) : dp_ret.path[i] - dp_ret.path[i-1] > 1

\* C4: with exactly T' = N frames the path is the identity and the score is
\* sum S[i,i] with no penalty subtracted, for every lambda >= 0
C4_SquareIsIdentityNoPenalty ==
    (DPDone /\ Shape(S_in).N >= 1 /\ Shape(S_in).T = Shape(S_in).N) =>
        /\ dp_ret.path = [i \in 0..(Shape(S_in).N - 1) |-> i]
        /\ dp_ret.score = SumSim(S_in, [i \in 0..(Shape(S_in).N - 1) |-> i], Shape(S_in).N)

\* C5: with penalty_weight = 0 the score is the maximum plain sum of matched
\* similarities, the path attains it, and the worked example gives 185 / [0, 2]
C5_ZeroPenalty ==
    (DPDone /\ DPFeasible /\ pw_in = 0) =>
        /\ dp_ret.score = BestValue(S_in, 0)
        /\ dp_ret.path \in Assignments(Shape(S_in).N, Shape(S_in).T)
        /\ SumSim(S_in, dp_ret.path, Shape(S_in).N) = dp_ret.score
        /\ S_in = ExampleS =>
              /\ dp_ret.score = 185
              /\ dp_ret.path = [i \in 0..1 |-> IF i = 0 THEN 0 ELSE 2]

C5_Witness ==
    /\ DPDone /\ pw_in = 0 /\ S_in = ExampleS
    /\ dp_ret.score = 185

\* C11: for a fixed S with T' >= N the returned score is weakly non-increasing
\* in the penalty: the score at lambda2 is <= the score at every lambda1 <= lambda2
C11_ScoreNonIncreasingInLambda ==
    (DPDone /\ DPFeasible) =>
        \A lambda1 \in 0..pw_in :
            dp_ret.score <= run_dp_and_backtracking(S_in, lambda1).score

\* a run whose score is strictly below the score of the same matrix at a
\* smaller positive penalty
C11_Witness ==
    /\ DPDone /\ DPFeasible /\ pw_in >= 2
    /\ dp_ret.score < run_dp_and_backtracking(S_in, pw_in - 1).score

(* ----------------------- properties of the tables -------------------- *)
SetMin(X) == CHOOSE x \in X : \A y \in X : x <= y

\* the cells the loops of lines 319-334 write: 1 <= i < N, i <= t < T
WrittenCells(S) ==
    { c \in (1..(Shape(S).N - 1)) \X (0..(Shape(S).T - 1)) : c[2] >= c[1] }

\* DP[i-1, t'] + lambda * t'
PredValue(tabs, lambda, i, tp) == AddInf(tabs.DP_table[i-1][tp], lambda * tp)

\* max over all t' < t of DP[i-1, t'] + lambda * t'
PredMax(tabs, lambda, i, t) ==
    SetMax({ PredValue(tabs, lambda, i, tp) : tp \in 0..(t-1) })

\* the predecessors t' < t that attain that maximum
BestPreds(tabs, lambda, i, t) ==
    { tp \in 0..(t-1) : PredValue(tabs, lambda, i, tp) = PredMax(tabs, lambda, i, t) }

\* the final frames that attain the best terminal score
BestFinals(tabs, S) ==
    { t \in 0..(Shape(S).T - 1) :
        \A u \in 0..(Shape(S).T - 1) :
            tabs.DP_table[Shape(S).N - 1][u] <= tabs.DP_table[Shape(S).N - 1][t] }

\* C22: ties are broken earliest-first: the backpointer of a cell (i, t),
\* i >= 1, is the smallest t' < t attaining the running maximum, and the
\* terminal frame is the smallest t attaining the best terminal score
C22_EarliestTieBreak ==
    (DPDone /\ DPFeasible) =>
        \A tabs \in { DPTables(S_in, pw_in) } :
            /\ \A c \in WrittenCells(S_in) :
                  tabs.backpointer_table[c[1]][c[2]]
                      = SetMin(BestPreds(tabs, pw_in, c[1], c[2]))
            /\ dp_ret.path[Shape(S_in).N - 1] = SetMin(BestFinals(tabs, S_in))

\* a run in which two predecessors tie for a cell and two final frames tie
C22_Witness ==
    /\ DPDone /\ DPFeasible /\ Shape(S_in).N >= 2
    /\ \E tabs \in { DPTables(S_in, pw_in) } :
          /\ \E c \in WrittenCells(S_in) :
                Cardinality(BestPreds(tabs, pw_in, c[1], c[2])) >= 2
          /\ Cardinality(BestFinals(tabs, S_in)) >= 2

\* C23: the incremental running maximum equals the full inner scan:
\* DP[i, t] = S[i, t] + max_{t' < t}(DP[i-1, t'] + lambda * t') - lambda * t
\* for every i >= 1 and t >= i
C23_RunningMaxIsFullScan ==
    (DPDone /\ DPFeasible) =>
        \A tabs \in { DPTables(S_in, pw_in) } :
            \A c \in WrittenCells(S_in) :
                tabs.DP_table[c[1]][c[2]]
                    = AddInf(AddInf(S_in[c[1]][c[2]],
                                    PredMax(tabs, pw_in, c[1], c[2])),
                             0 - pw_in * c[2])

\* a cell of the third row, under a positive penalty, whose best predecessor
\* is not the frame just before it
C23_Witness ==
    /\ DPDone /\ DPFeasible /\ pw_in > 0
    /\ \E tabs \in { DPTables(S_in, pw_in) } :
          \E c \in WrittenCells(S_in) :
              /\ c[1] = 2
              /\ tabs.backpointer_table[c[1]][c[2]] < c[2] - 1

\* C24: in every returned path event i sits at an index t_i >= i, and every
\* cell (i, t) with t < i holds the infeasible sentinel
C24_FeasibilityConstraint ==
    (DPDone /\ DPFeasible) =>
        /\ \A i \in 0..(Shape(S_in).N - 1) : dp_ret.path[i] >= i
        /\ \A tabs \in { DPTables(S_in, pw_in) } :
              \A i \in 0..(Shape(S_in).N - 1) : \A t \in 0..(i - 1) :
                  IsNegInf(tabs.DP_table[i][t])

\* three events on four frames whose best frames for the last event are the
\* first two, which the constraint rules out
C24_Witness ==
    /\ DPDone /\ Shape(S_in).N = 3 /\ Shape(S_in).T = 4
    /\ S_in[2][0] > S_in[2][2] /\ S_in[2][1] > S_in[2][3]
    /\ dp_ret.path # EmptyList
    /\ dp_ret.path[2] >= 2

\* max entry minus min entry of S
Spread(S) ==
    LET entries == { S[i][t] : i \in 0..(Shape(S).N - 1), t \in 0..(Shape(S).T - 1) }
    IN  SetMax(entries) - SetMin(entries)

IsContiguous(p, n) == \A i \in 0..(n - 1) : p[i] = p[0] + i

\* C25: for T' >= N, a penalty above N times the spread of S forces a
\* contiguous alignment: t_i = t_0 + i for every i
C25_LargePenaltyForcesContiguous ==
    (DPDone /\ DPFeasible /\ pw_in > Shape(S_in).N * Spread(S_in)) =>
        IsContiguous(dp_ret.path, Shape(S_in).N)

\* a penalty above N times a non-zero spread made the engine return a
\* contiguous path although a path with a gap matches better
C25_Witness ==
    /\ DPDone /\ DPFeasible /\ Shape(S_in).N >= 2 /\ Spread(S_in) >= 1
    /\ pw_in > Shape(S_in).N * Spread(S_in)
    /\ IsContiguous(dp_ret.path, Shape(S_in).N)
    /\ SumSim(S_in, dp_ret.path, Shape(S_in).N) < BestValue(S_in, 0)

\* C27: on feasible input every backpointer of a cell (i, t), i >= 1, t >= i,
\* lies in [i-1, t-1], so backtracking never meets an unset or out-of-range
\* backpointer and a path is always returned
C27_BacktrackingNeverFails ==
    (DPDone /\ DPFeasible) =>
        /\ \A tabs \in { DPTables(S_in, pw_in) } :
              \A c \in WrittenCells(S_in) :
                  /\ c[1] - 1 <= tabs.backpointer_table[c[1]][c[2]]
                  /\ tabs.backpointer_table[c[1]][c[2]] <= c[2] - 1
        /\ dp_ret.path # EmptyList
        /\ ~IsNegInf(dp_ret.score)
        /\ \A i \in 0..(Shape(S_in).N - 1) :
              dp_ret.path[i] \in 0..(Shape(S_in).T - 1)

\* three events backtracked through two stored backpointers, from a terminal
\* frame that is not the last one
C27_Witness ==
    /\ DPDone /\ Shape(S_in).N = 3 /\ Shape(S_in).T = 4
    /\ dp_ret.path # EmptyList
    /\ dp_ret.path[2] = 2

(* --------------------- properties of rank_videos ---------------------- *)
Returned == pc = "done"

NumEvents == Len(request.events)

\* frame ids the range fetch of a video gave during the request
FetchedIds(video_id) ==
    IF RangeOf(video_ranges, video_id) = {} THEN <<>>
    ELSE LET r == CHOOSE x \in RangeOf(video_ranges, video_id) : TRUE
         IN  get_embeddings_by_range(corpus, r.start_id, r.end_id,
                                     video_id \in world.fetch_raises).ids

\* a frame id passes the resolved exclusion / allow sets
Passes(frame_id) ==
    /\ filter_keys.excluded_ids.is_none \/ frame_id \notin filter_keys.excluded_ids.ids
    /\ filter_keys.allowed_ids.is_none \/ frame_id \in filter_keys.allowed_ids.ids

\* T' of a video: fetched frames left after metadata filtering
FilteredCount(video_id) ==
    Cardinality({ j \in 1..Len(FetchedIds(video_id)) : Passes(FetchedIds(video_id)[j]) })

ResultVideos == { final_results[k].video_id : k \in 1..Len(final_results) }

\* C3: every returned result has exactly N = len(events) aligned frame ids and
\* the list is strictly increasing
C3_AlignedIdsStrictlyIncreasing ==
    Returned =>
        \A k \in 1..Len(final_results) :
            LET a == final_results[k].aligned_key_ids
            IN  /\ Len(a) = NumEvents
                /\ \A i \in 1..(Len(a) - 1) : a[i] < a[i + 1]

\* a returned alignment of two events that skips a frame, read from an index
\* that stores the frames of the video out of id order
C3_Witness ==
    /\ Returned /\ NumEvents = 2 /\ corpus = CorpusA
    /\ \E k \in 1..Len(final_results) :
          final_results[k].aligned_key_ids = <<1, 3>>

\* C6: a candidate video with fewer than N frames left after metadata
\* filtering (none at all included) never appears in the returned list
C6_TooFewFramesNeverReturned ==
    Returned =>
        \A k \in 1..Len(final_results) :
            FilteredCount(final_results[k].video_id) >= NumEvents

\* one candidate lost every frame to exclude_groups and is absent, while the
\* request still returned another video
C6_Witness ==
    /\ Returned /\ final_results # <<>>
    /\ \E v \in candidate_video_ids :
          /\ Len(FetchedIds(v)) >= NumEvents
          /\ ~filter_keys.excluded_ids.is_none
          /\ FilteredCount(v) = 0
          /\ v \notin ResultVideos

\* C7: whatever the metadata lookup does, no aligned frame id is ruled out by
\* the caller's constraint (excluded group; or outside the allow-set)
C7_NoRuledOutFrame ==
    Returned =>
        \A k \in 1..Len(final_results) :
            \A i \in 1..Len(final_results[k].aligned_key_ids) :
                LET id == final_results[k].aligned_key_ids[i]
                    f  == request.filters
                IN  IF f.exclude_groups # {}
                    THEN id \notin { d.key : d \in FindByGroups(f.exclude_groups) }
                    ELSE IF f.include_groups # {} \/ f.include_videos # {}
                    THEN id \in { d.key : d \in
                                    FindIncluded(f.include_groups, f.include_videos) }
                    ELSE TRUE

\* C8: two executions with the same request and the same collaborator
\* answers return identical lists
C8_SameInputsSameList ==
    second.done => second.results = final_results

\* what the per-video step gave for each candidate during the request
CandidateResults ==
    loop_bodies(IF order = <<>> THEN {} ELSE candidate_video_ids,
                video_ranges, corpus, query_vectors, filter_keys,
                lambda_of(request.penalty_weight), world.fetch_raises)

\* the candidates that produced a feasible alignment
Feasible(res) == { b.video_id : b \in { x \in res : x.out.ok } }

\* C9: the returned list is ordered by score non-increasing, has length
\* min(top_k, number of feasible candidates) and holds the best of them
C9_SortedTopK ==
    Returned =>
        \A res \in {CandidateResults} :
            /\ \A i, j \in 1..Len(final_results) :
                  i < j => final_results[i].score >= final_results[j].score
            /\ Len(final_results) = Min(request.top_k, Cardinality(Feasible(res)))
            /\ \A k \in 1..Len(final_results) :
                  /\ final_results[k].video_id \in Feasible(res)
                  /\ final_results[k] = BodyOf(res, final_results[k].video_id).result
            /\ \A i, j \in 1..Len(final_results) :
                  i # j => final_results[i].video_id # final_results[j].video_id
            /\ \A v \in Feasible(res) \ ResultVideos :
                  \A k \in 1..Len(final_results) :
                      BodyOf(res, v).result.score <= final_results[k].score

\* top_k cut off a feasible candidate that was iterated first and scored lower
C9_Witness ==
    /\ Returned /\ order # <<>>
    /\ \E res \in {CandidateResults} :
          /\ Cardinality(Feasible(res)) > request.top_k
          /\ order[1] \in Feasible(res) \ ResultVideos
          /\ \E k \in 1..Len(final_results) :
                BodyOf(res, order[1]).result.score < final_results[k].score

PositionIn(q, x) == CHOOSE i \in 1..Len(q) : q[i] = x

\* C10: results with equal scores keep the relative order in which their
\* videos were iterated in the per-video loop
C10_StableForEqualScores ==
    Returned =>
        \A i, j \in 1..Len(final_results) :
            (i < j /\ final_results[i].score = final_results[j].score) =>
                PositionIn(order, final_results[i].video_id)
                    < PositionIn(order, final_results[j].video_id)

\* two equally scored results returned, and a feasible video that was iterated
\* before both of them left out
C10_Witness ==
    /\ Returned /\ Len(final_results) = 2 /\ Len(order) = 3
    /\ final_results[1].score = final_results[2].score
    /\ order[1] \in Feasible(CandidateResults) \ ResultVideos

\* the request with both inclusion constraints removed
WithoutIncludes(req) ==
    [req EXCEPT !.filters = Filters(req.filters.exclude_groups, {}, {})]

\* C12: a non-empty exclude_groups takes precedence, the request returns what
\* it returns with include_groups and include_videos removed; with all three
\* constraints empty every fetched frame passes the filter (T' = T)
C12_ExcludeTakesPrecedence ==
    Returned =>
        /\ request.filters.exclude_groups # {} =>
              final_results = rank_videos(WithoutIncludes(request), corpus,
                                          video_ranges, id_ranges_list, world, order)
        /\ ~IssuesLookup(request.filters) =>
              \A v \in candidate_video_ids :
                  Len(col_indices_filtered(FetchedIds(v), filter_keys))
                      = Len(FetchedIds(v))

\* exclude_groups and include_groups both name group "2": the lookup succeeded
\* and a video made only of frames outside group "2" was returned
C12_Witness ==
    /\ Returned /\ ~world.lookup_raises
    /\ request.filters = Filters({"2"}, {"2"}, {})
    /\ \E k \in 1..Len(final_results) : final_results[k].video_id = "1/1"

\* what the range fetch and the similarity step gave for a video
FetchedMatrix(video_id) ==
    LET r == CHOOSE x \in RangeOf(video_ranges, video_id) : TRUE
    IN  compute_similarity_matrix_for_video(query_vectors, corpus, r.start_id,
                                            r.end_id, video_id \in world.fetch_raises)

\* C13: metadata filtering never reorders: the filtered frame ids are a
\* subsequence of the fetched ones (T' <= T), and column j of the filtered
\* matrix is the fetched column of the frame id at position j
C13_FilterKeepsOrder ==
    (Returned /\ order # <<>>) =>
        \A v \in candidate_video_ids :
            LET sm   == FetchedMatrix(v)
                cols == col_indices_filtered(sm.key_ids, filter_keys)
                ids  == frame_ids_filtered(sm.key_ids, cols)
                S_f  == S_matrix_filtered(sm.S_matrix, cols, NumEvents)
            IN  /\ Len(ids) <= Len(sm.key_ids)
                /\ \A j \in 1..Len(ids) : ids[j] \in SeqToSet(sm.key_ids)
                /\ \A j, k \in 1..Len(ids) :
                      j < k => PositionIn(sm.key_ids, ids[j])
                                  < PositionIn(sm.key_ids, ids[k])
                /\ \A i \in 0..(NumEvents - 1) : \A j \in 1..Len(ids) :
                      S_f[i][j - 1]
                          = sm.S_matrix[i][PositionIn(sm.key_ids, ids[j]) - 1]

\* the allow-set dropped the middle frame of a video and the two frames left
\* were aligned, the second one read from the third fetched column
C13_Witness ==
    /\ Returned /\ order # <<>> /\ ~filter_keys.allowed_ids.is_none
    /\ "1/1" \in candidate_video_ids
    /\ FetchedIds("1/1") = <<1, 2, 3>>
    /\ \E k \in 1..Len(final_results) :
          /\ final_results[k].aligned_key_ids = <<1, 3>>
          /\ final_results[k].score = 2 * SimUnit

\* the pre-filter step ran: every event's nearest-neighbour query was answered
PreFiltered == world.search # <<>>

\* the videos whose [start_id, end_id] holds one of the frame ids
OwnersOf(frame_ids) ==
    { video_ranges[r].video_id : r \in
        { x \in 1..Len(video_ranges) :
            \E j \in 1..Len(frame_ids) :
                /\ video_ranges[x].start_id <= frame_ids[j]
                /\ frame_ids[j] <= video_ranges[x].end_id } }

\* the events whose nearest-neighbour query did not raise
Succeeded == { i \in 1..Len(world.search) : ~world.search[i].raises }

\* C14: the candidate set is exactly the union, over the events whose query
\* succeeded, of the videos whose range holds a returned frame id; a frame id
\* outside every range adds nothing
C14_CandidatesAreOwners ==
    PreFiltered =>
        candidate_video_ids
            = UNION { OwnersOf(world.search[i].results) : i \in Succeeded }

\* the query returned frame 2 and frame 9, which no range holds: the only
\* candidate is the owner of frame 2
C14_Witness ==
    /\ PreFiltered /\ pc = "filters"
    /\ \E i \in Succeeded : world.search[i].results = <<2, 9>>
    /\ candidate_video_ids = {"1/1"}

\* C15: when the query of some event raises and that of another does not,
\* the pre-filter still yields every video found by the events that succeeded
\* and the request goes on to the later steps
C15_PartialQueryFailureTolerated ==
    (PreFiltered /\ Succeeded # {} /\ Succeeded # 1..Len(world.search)) =>
        /\ \A i \in Succeeded :
              OwnersOf(world.search[i].results) \subseteq candidate_video_ids
        /\ candidate_video_ids # {} => (pc = "done" => order # <<>>)

\* the first event's query raised, the second found three videos, and the
\* request returned results
C15_Witness ==
    /\ Returned /\ PreFiltered /\ Len(world.search) = 2
    /\ world.search[1].raises /\ ~world.search[2].raises
    /\ candidate_video_ids = {"1/1", "1/2", "2/1"}
    /\ final_results # <<>>

\* the iteration order with the videos of X taken out
OrderWithout(X) == SelectSeq(order, LAMBDA v : v \notin X)

\* C16: a range-fetch error for one candidate never aborts the batch: the
\* video is omitted and the others contribute what they would have
\* contributed had the failing video not been a candidate
C16_VideoErrorIsolated ==
    (Returned /\ order # <<>> /\ world.fetch_raises # {}) =>
        /\ ResultVideos \cap world.fetch_raises = {}
        /\ all_video_results
             = sort_by_score_desc(
                 collect_results(
                     OrderWithout(world.fetch_raises), 1, <<>>,
                     loop_bodies(candidate_video_ids \ world.fetch_raises,
                                 video_ranges, corpus, query_vectors, filter_keys,
                                 lambda_of(request.penalty_weight), {})))

\* the fetch raised for the video iterated first, which would otherwise have
\* had a feasible alignment, and a video iterated after it was returned
C16_Witness ==
    /\ Returned /\ Len(order) >= 2
    /\ world.fetch_raises = {order[1]}
    /\ process_video(order[1], video_ranges, corpus, query_vectors, filter_keys,
                     lambda_of(request.penalty_weight), FALSE).ok
    /\ order[2] \in ResultVideos

\* C17: with N = 0 events rank_videos returns an empty list and contacts no
\* collaborator: no embedding, no nearest or range query, no metadata query
C17_NoEventsNoCalls ==
    (Returned /\ NumEvents = 0) => (final_results = <<>> /\ calls = {})

\* a request without events but with filters, on a service whose table loaded
C17_Witness ==
    /\ Returned /\ NumEvents = 0 /\ ranges_file.state = "ok"
    /\ IssuesLookup(request.filters)
    /\ final_results = <<>> /\ calls = {}

\* rank_videos was left by an exception that reaches its caller
Raised == pc = "raised"

\* C18: when embedding the events fails the request is aborted: no nearest or
\* range query and no metadata query follows, and the caller gets an error
\* instead of an ordinary empty result
C18_EmbeddingErrorSurfaced ==
    world.embed_raises => (calls = {"embed"} /\ Raised)

\* C19: a missing or corrupt id-range table is fatal at startup: construction
\* fails and the service never accepts a ranking request
C19_MissingTableIsFatal ==
    ranges_file.state # "ok" => pc = "failed"

\* the results gathered from the first k candidates of the iteration order
GatheredAfter(k) ==
    sort_by_score_desc(collect_results(SubSeq(order, 1, k), 1, <<>>,
                                       CandidateResults))

\* C20: when the request-level deadline passes while candidates are still
\* being processed, the rest is abandoned and rank_videos returns the sorted,
\* truncated list of the feasible results gathered so far
C20_TimeoutReturnsPartial ==
    (Returned /\ order # <<>> /\ world.expired_after < Len(order)) =>
        final_results = truncate(GatheredAfter(world.expired_after), request.top_k)

\* the lambda the request asks for: its own penalty_weight when one is given
RequestedLambda ==
    IF request.penalty_weight.is_none THEN DP_PENALTY_WEIGHT
    ELSE request.penalty_weight.value

\* what the per-video step gives for a video under penalty lambda
ResultUnder(video_id, lambda) ==
    process_video(video_id, video_ranges, corpus, query_vectors, filter_keys,
                  lambda, video_id \in world.fetch_raises)

\* C29: the configured default penalty is used only when penalty_weight is
\* absent; an explicit penalty_weight, 0 included, is the lambda the
\* alignment engine gets
C29_ExplicitPenaltyIsUsed ==
    Returned =>
        \A k \in 1..Len(final_results) :
            final_results[k]
                = ResultUnder(final_results[k].video_id, RequestedLambda).result

\* an explicit penalty of 0 gave a result with a gap a score the default
\* penalty would have lowered
C29_Witness ==
    /\ Returned
    /\ ~request.penalty_weight.is_none /\ request.penalty_weight.value = 0
    /\ \E k \in 1..Len(final_results) :
          /\ final_results[k].aligned_key_ids = <<1, 3>>
          /\ final_results[k].score
                > ResultUnder(final_results[k].video_id, DP_PENALTY_WEIGHT).result.score

\* the documents that satisfy every inclusion constraint that is given
Included(f) ==
    { d.key : d \in { x \in KeyframeDocs :
        /\ f.include_groups = {} \/ x.group_num \in f.include_groups
        /\ f.include_videos = {} \/ x.video_num \in f.include_videos } }

\* an inclusion constraint is in force and its lookup succeeded
InclusionInForce ==
    /\ Returned /\ order # <<>> /\ ~world.lookup_raises
    /\ request.filters.exclude_groups = {}
    /\ request.filters.include_groups # {} \/ request.filters.include_videos # {}

\* C30: without exclude_groups, include_groups and include_videos given
\* together are a conjunction, one given alone defines the allow-set alone,
\* and an allow-set that matches no frame yields an empty ranking
C30_IncludesAreConjoined ==
    InclusionInForce =>
        /\ ~filter_keys.allowed_ids.is_none
        /\ filter_keys.allowed_ids.ids = Included(request.filters)
        /\ \A k \in 1..Len(final_results) :
              SeqToSet(final_results[k].aligned_key_ids)
                  \subseteq Included(request.filters)
        /\ \A v \in candidate_video_ids :
              SeqToSet(FetchedIds(v)) \cap Included(request.filters) = {}
                  => v \notin ResultVideos
        /\ Included(request.filters) = {} => final_results = <<>>

\* group "1" and video number 2 given together: video "1/2" is returned and
\* video "1/1", of group "1" but video number 1, is not
C30_Witness ==
    /\ InclusionInForce
    /\ request.filters = Filters({}, {"1"}, {2})
    /\ "1/1" \in candidate_video_ids /\ "1/1" \notin ResultVideos
    /\ "1/2" \in ResultVideos

\* an allow-set that matches no frame, on candidates that have frames
C30_EmptyAllowSetReached ==
    /\ InclusionInForce /\ Included(request.filters) = {}
    /\ candidate_video_ids # {} /\ final_results = <<>>

(* --------------- properties of interleaved rank_videos calls ---------- *)
\* what the collaborators of the interleaved runs answer to a request
ConcWorld(req) ==
    [embed_raises |-> FALSE,
     search |-> [i \in 1..Len(req.events) |-> ConcSearch(embed_texts(req.events)[i])],
     lookup_raises |-> FALSE, fetch_raises |-> {}, expired_after |-> 0]

\* the list the request returns when it runs alone on the instance
AloneResult(req) ==
    rank_videos(req, ConcIndex, LoadedFile.data,
                build_id_to_video_mapping(LoadedFile.data), ConcWorld(req),
                IterationOrder(get_candidate_videos_from_queries(
                    build_id_to_video_mapping(LoadedFile.data),
                    embed_texts(req.events), ConcWorld(req).search)))

\* C21: rank_videos never modifies video_ranges or id_ranges_list, and two
\* requests interleaved at their await points on one instance each return
\* the list they return when run alone
C21_InterleavedRequestsIndependent ==
    conc # <<>> =>
        /\ video_ranges = LoadedFile.data
        /\ id_ranges_list = build_id_to_video_mapping(LoadedFile.data)
        /\ \A r \in Requesters :
              conc.locals[r].pc = "done" =>
                  conc.locals[r].final_results = AloneResult(conc.args[r])

\* two different requests, the second finished with results while the first
\* was in the middle of its loop over the candidates
C21_Witness ==
    /\ conc # <<>>
    /\ conc.args[1] # conc.args[2]
    /\ conc.locals[2].pc = "done" /\ conc.locals[2].final_results # <<>>
    /\ conc.locals[1].pc = "videos" /\ conc.locals[1].all_video_results # <<>>
    /\ conc.locals[1].todo # <<>>

(* ------------------ properties of get_embeddings_by_range ------------- *)
FetchDone == fetch_pc = "done"

\* the ids the index holds inside [start_id, end_id]
IdsInRange(args) ==
    { args.index[j].id : j \in { k \in 1..Len(args.index) :
          /\ args.index[k].id >= args.start_id
          /\ args.index[k].id <= args.end_id } }

\* C26: get_embeddings_by_range returns the frame ids of [start_id, end_id]
\* in ascending order, the vector at position j being that of the id at
\* position j, whatever the storage order; for end_id < start_id it returns
\* two empty lists
C26_FetchAscendingAndPaired ==
    FetchDone =>
        /\ fetch_args.end_id < fetch_args.start_id => fetch_ret = NoEmbeddings
        /\ (fetch_args.end_id >= fetch_args.start_id /\ ~fetch_args.raises) =>
              /\ Len(fetch_ret.vectors) = Len(fetch_ret.ids)
              /\ SeqToSet(fetch_ret.ids) = IdsInRange(fetch_args)
              /\ \A j \in 1..(Len(fetch_ret.ids) - 1) :
                    fetch_ret.ids[j] < fetch_ret.ids[j + 1]
              /\ \A j \in 1..Len(fetch_ret.ids) :
                    Entity(fetch_ret.ids[j], fetch_ret.vectors[j])
                        \in SeqToSet(fetch_args.index)

\* frames 1..3 fetched from the index that stores them as 3, 2, 1
C26_Witness ==
    /\ FetchDone /\ fetch_args.index = CorpusA /\ ~fetch_args.raises
    /\ fetch_args.start_id = 1 /\ fetch_args.end_id = 3
    /\ fetch_ret.ids = <<1, 2, 3>>
    /\ fetch_ret.vectors = <<"a", "z", "b">>

(* ------------------ properties of rank_videos_by_dp ------------------- *)
Responded == pc = "responded"

\* C28: the controller passes results through: one RankedVideoResult per
\* service result, in the same order, with its video_id, score and aligned
\* frame ids
C28_ControllerPassesThrough ==
    Responded =>
        /\ Len(response) = Len(final_results)
        /\ \A k \in 1..Len(response) :
              /\ response[k].video_id = final_results[k].video_id
              /\ response[k].dp_score = final_results[k].score
              /\ response[k].aligned_key_ids = final_results[k].aligned_key_ids

=============================================================================
